---- MODULE Spec2Model ----
(***************************************************************************)
(* Ghost entity of Pyc-Man (src/src/ghost.py, src/src/position.py): the    *)
(* house state machine, the lifecycle state machine, the per-frame update  *)
(* with its targeting, direction choice and tile-constrained movement.     *)
(* Pixel coordinates are integers: every coordinate the program produces   *)
(* from the integer start positions below is an integer.                   *)
(***************************************************************************)
EXTENDS Integers, Sequences, FiniteSets, TLC

\* The fields of one Ghost object, and two history variables: lastOp, the
\* operation called last, and since_frightened, the number of update()
\* calls since start_frightened() last took effect (NoCount before the
\* first one, after the 600th update and after a get_eaten() or
\* return_to_house() in between).  pacman is the player object whose x, y and
\* direction a caller passes to update() and calculate_target(); the game
\* specifications, whose update() takes any snapshot, keep it at NoPlayer.
VARIABLES position, spawn_position, direction, speed, target, state,
          house_state, frightened_timer, game_map, name, blinky,
          lastOp, since_frightened, pacman

vars == << position, spawn_position, direction, speed, target, state,
           house_state, frightened_timer, game_map, name, blinky,
           lastOp, since_frightened, pacman >>

(***************************************************************************)
(* settings (src/settings.py is not part of the sources; values follow the *)
(* specification's examples: tile size 20, 4-tile and 2-tile lookahead,    *)
(* 8-tile threshold, a base speed between the slow 1 and the fast 4).      *)
(***************************************************************************)
TILE_SIZE == 20
GHOST_SPEED == 2
MAP_WIDTH == 3
SCREEN_WIDTH == MAP_WIDTH * TILE_SIZE
PINKY_TILES_AHEAD == 4
INKY_OFFSET_TILES == 2
CLYDE_SCATTER_DISTANCE_TILES == 8

\* Constants written in ghost.py itself.
FRIGHTENED_DURATION == 600
FRIGHTENED_SPEED == 1
EATEN_SPEED == 4
TOLERANCE == 2

\* The house-exit point, a tile center of the top row (pixels).
house_exit == [x |-> 30, y |-> 10]

NoPosition == [none |-> TRUE]

NoPlayer == [none |-> TRUE]

Position(px, py) == [x |-> px, y |-> py]

\* Direction enum: unit vectors, y grows downwards.
Directions == << "UP", "DOWN", "LEFT", "RIGHT" >>

DirectionSet == {"UP", "DOWN", "LEFT", "RIGHT"}

value(d) ==
    CASE d = "UP"    -> << 0, -1 >>
      [] d = "DOWN"  -> << 0, 1 >>
      [] d = "LEFT"  -> << -1, 0 >>
      [] d = "RIGHT" -> << 1, 0 >>

Abs(n) == IF n < 0 THEN -n ELSE n

(***************************************************************************)
(* Position helpers (position.py).                                         *)
(***************************************************************************)
to_grid(p) == << p.x \div TILE_SIZE, p.y \div TILE_SIZE >>

get_center(p) == << p.x + TILE_SIZE \div 2, p.y + TILE_SIZE \div 2 >>

\* distance_to squared: math.sqrt is monotone, so every comparison the
\* program makes on distances is the same comparison on their squares.
distance_to_sq(p, q) ==
    LET c1 == get_center(p)
        c2 == get_center(q)
    IN  (c1[1] - c2[1]) * (c1[1] - c2[1]) + (c1[2] - c2[2]) * (c1[2] - c2[2])

(***************************************************************************)
(* Grid adapter (GameMap): a map is its size and its set of walkable       *)
(* tiles; a tile outside the map is not walkable.                          *)
(***************************************************************************)
is_walkable(m, gx, gy) ==
    /\ gx >= 0 /\ gx < m.width
    /\ gy >= 0 /\ gy < m.height
    /\ << gx, gy >> \in m.walkable

grid_to_pixel(gx, gy) ==
    << gx * TILE_SIZE + TILE_SIZE \div 2, gy * TILE_SIZE + TILE_SIZE \div 2 >>

\* A single corridor: the top row, which is also the tunnel row; the house
\* lies below it.
Corridor ==
    [width |-> MAP_WIDTH, height |-> 3,
     walkable |-> {<< gx, 0 >> : gx \in 0 .. MAP_WIDTH - 1}]

\* Where main.py constructs the ghosts: one at the house-exit point (the
\* first to leave), the others inside the house, here one tile right of and
\* one tile below the exit.
ExitStart == Position(house_exit.x, house_exit.y)
HouseStart == Position(house_exit.x + TILE_SIZE, house_exit.y + TILE_SIZE)
StartPositions == {ExitStart, HouseStart}


(***************************************************************************)
(* Targeting strategies (calculate_target of the four variants).           *)
(***************************************************************************)
NoBlinky == [none |-> TRUE]

\* Targeting in which the ambusher aims at the player's own tile.
calculate_target_no_lookahead(n, self_pos, partner, m, pacman_x, pacman_y, pacman_direction) ==
    CASE n = "Blinky" -> << pacman_x, pacman_y >>
      [] n = "Pinky" -> << pacman_x, pacman_y >>
      [] n = "Inky" ->
            IF partner = NoBlinky
            THEN << pacman_x, pacman_y >>
            ELSE LET offset_pixels == INKY_OFFSET_TILES * TILE_SIZE
                     intermediate_x == pacman_x + pacman_direction[1] * offset_pixels
                     intermediate_y == pacman_y + pacman_direction[2] * offset_pixels
                     vector_x == intermediate_x - partner.x
                     vector_y == intermediate_y - partner.y
                 IN  << partner.x + vector_x * 2, partner.y + vector_y * 2 >>
      [] n = "Clyde" ->
            LET scatter_distance == CLYDE_SCATTER_DISTANCE_TILES * TILE_SIZE
                scatter_x == 1 * TILE_SIZE
                scatter_y == (m.height - 2) * TILE_SIZE
            IN  IF distance_to_sq(self_pos, Position(pacman_x, pacman_y))
                       > scatter_distance * scatter_distance
                THEN << pacman_x, pacman_y >>
                ELSE << scatter_x, scatter_y >>

\* Targeting in which the pincer does not double the partner vector.
calculate_target_single_vector(n, self_pos, partner, m, pacman_x, pacman_y, pacman_direction) ==
    CASE n = "Blinky" -> << pacman_x, pacman_y >>
      [] n = "Pinky" ->
            LET offset_pixels == PINKY_TILES_AHEAD * TILE_SIZE
            IN  << pacman_x + pacman_direction[1] * offset_pixels,
                   pacman_y + pacman_direction[2] * offset_pixels >>
      [] n = "Inky" ->
            IF partner = NoBlinky
            THEN << pacman_x, pacman_y >>
            ELSE LET offset_pixels == INKY_OFFSET_TILES * TILE_SIZE
                     intermediate_x == pacman_x + pacman_direction[1] * offset_pixels
                     intermediate_y == pacman_y + pacman_direction[2] * offset_pixels
                     vector_x == intermediate_x - partner.x
                     vector_y == intermediate_y - partner.y
                 IN  << partner.x + vector_x, partner.y + vector_y >>
      [] n = "Clyde" ->
            LET scatter_distance == CLYDE_SCATTER_DISTANCE_TILES * TILE_SIZE
                scatter_x == 1 * TILE_SIZE
                scatter_y == (m.height - 2) * TILE_SIZE
            IN  IF distance_to_sq(self_pos, Position(pacman_x, pacman_y))
                       > scatter_distance * scatter_distance
                THEN << pacman_x, pacman_y >>
                ELSE << scatter_x, scatter_y >>

\* Targeting in which the pincer without partner aims ahead of the player.
calculate_target_no_partner_ahead(n, self_pos, partner, m, pacman_x, pacman_y, pacman_direction) ==
    CASE n = "Blinky" -> << pacman_x, pacman_y >>
      [] n = "Pinky" ->
            LET offset_pixels == PINKY_TILES_AHEAD * TILE_SIZE
            IN  << pacman_x + pacman_direction[1] * offset_pixels,
                   pacman_y + pacman_direction[2] * offset_pixels >>
      [] n = "Inky" ->
            LET offset_pixels == INKY_OFFSET_TILES * TILE_SIZE
                intermediate_x == pacman_x + pacman_direction[1] * offset_pixels
                intermediate_y == pacman_y + pacman_direction[2] * offset_pixels
            IN  IF partner = NoBlinky
                THEN << intermediate_x, intermediate_y >>
                ELSE << partner.x + (intermediate_x - partner.x) * 2,
                        partner.y + (intermediate_y - partner.y) * 2 >>
      [] n = "Clyde" ->
            LET scatter_distance == CLYDE_SCATTER_DISTANCE_TILES * TILE_SIZE
                scatter_x == 1 * TILE_SIZE
                scatter_y == (m.height - 2) * TILE_SIZE
            IN  IF distance_to_sq(self_pos, Position(pacman_x, pacman_y))
                       > scatter_distance * scatter_distance
                THEN << pacman_x, pacman_y >>
                ELSE << scatter_x, scatter_y >>

\* Targeting in which the timid ghost chases already at the threshold distance.
calculate_target_chase_at_threshold(n, self_pos, partner, m, pacman_x, pacman_y, pacman_direction) ==
    CASE n = "Blinky" -> << pacman_x, pacman_y >>
      [] n = "Pinky" ->
            LET offset_pixels == PINKY_TILES_AHEAD * TILE_SIZE
            IN  << pacman_x + pacman_direction[1] * offset_pixels,
                   pacman_y + pacman_direction[2] * offset_pixels >>
      [] n = "Inky" ->
            IF partner = NoBlinky
            THEN << pacman_x, pacman_y >>
            ELSE LET offset_pixels == INKY_OFFSET_TILES * TILE_SIZE
                     intermediate_x == pacman_x + pacman_direction[1] * offset_pixels
                     intermediate_y == pacman_y + pacman_direction[2] * offset_pixels
                     vector_x == intermediate_x - partner.x
                     vector_y == intermediate_y - partner.y
                 IN  << partner.x + vector_x * 2, partner.y + vector_y * 2 >>
      [] n = "Clyde" ->
            LET scatter_distance == CLYDE_SCATTER_DISTANCE_TILES * TILE_SIZE
                scatter_x == 1 * TILE_SIZE
                scatter_y == (m.height - 2) * TILE_SIZE
            IN  IF distance_to_sq(self_pos, Position(pacman_x, pacman_y))
                       >= scatter_distance * scatter_distance
                THEN << pacman_x, pacman_y >>
                ELSE << scatter_x, scatter_y >>

calculate_target(n, self_pos, partner, m, pacman_x, pacman_y, pacman_direction) ==
    CASE n = "Blinky" -> << pacman_x, pacman_y >>
      [] n = "Pinky" ->
            LET offset_pixels == PINKY_TILES_AHEAD * TILE_SIZE
            IN  << pacman_x + pacman_direction[1] * offset_pixels,
                   pacman_y + pacman_direction[2] * offset_pixels >>
      [] n = "Inky" ->
            IF partner = NoBlinky
            THEN << pacman_x, pacman_y >>
            ELSE LET offset_pixels == INKY_OFFSET_TILES * TILE_SIZE
                     intermediate_x == pacman_x + pacman_direction[1] * offset_pixels
                     intermediate_y == pacman_y + pacman_direction[2] * offset_pixels
                     vector_x == intermediate_x - partner.x
                     vector_y == intermediate_y - partner.y
                 IN  << partner.x + vector_x * 2, partner.y + vector_y * 2 >>
      [] n = "Clyde" ->
            LET scatter_distance == CLYDE_SCATTER_DISTANCE_TILES * TILE_SIZE
                scatter_x == 1 * TILE_SIZE
                scatter_y == (m.height - 2) * TILE_SIZE
            IN  IF distance_to_sq(self_pos, Position(pacman_x, pacman_y))
                       > scatter_distance * scatter_distance
                THEN << pacman_x, pacman_y >>
                ELSE << scatter_x, scatter_y >>

(***************************************************************************)
(* Navigation helpers.                                                     *)
(***************************************************************************)
\* A reversal that forgets the horizontal directions.
reverse_direction_vertical_only(d) ==
    CASE d = "UP"    -> "DOWN"
      [] d = "DOWN"  -> "UP"
      [] OTHER       -> d

reverse_direction(d) ==
    CASE d = "UP"    -> "DOWN"
      [] d = "DOWN"  -> "UP"
      [] d = "LEFT"  -> "RIGHT"
      [] d = "RIGHT" -> "LEFT"
      [] OTHER       -> d

\* A centering test that still holds at the tolerance itself.
is_centered_on_tile_inclusive(p) ==
    LET g == to_grid(p)
        center == grid_to_pixel(g[1], g[2])
    IN  /\ Abs(p.x - center[1]) <= TOLERANCE
        /\ Abs(p.y - center[2]) <= TOLERANCE

is_centered_on_tile(p) ==
    LET g == to_grid(p)
        center == grid_to_pixel(g[1], g[2])
    IN  /\ Abs(p.x - center[1]) < TOLERANCE
        /\ Abs(p.y - center[2]) < TOLERANCE

is_opposite_direction(cur, d) ==
    /\ value(d)[1] = -value(cur)[1]
    /\ value(d)[2] = -value(cur)[2]

\* Infinity of the distance comparison, and "no distance" (None).
Inf == -1
NoDistance == -2

get_distance_for_direction(m, p, t, d) ==
    IF t = NoPosition
    THEN Inf
    ELSE LET g == to_grid(p)
             next_grid_x == g[1] + value(d)[1]
             next_grid_y == g[2] + value(d)[2]
         IN  IF ~is_walkable(m, next_grid_x, next_grid_y)
             THEN NoDistance
             ELSE LET np == grid_to_pixel(next_grid_x, next_grid_y)
                  IN  distance_to_sq(Position(np[1], np[2]), t)

\* A comparison that lets an equal distance win too.
Less_or_equal(distance, best_distance) ==
    /\ distance # Inf
    /\ (best_distance = Inf \/ distance <= best_distance)

\* distance < best_distance, with best_distance possibly infinite.
Less(distance, best_distance) ==
    /\ distance # Inf
    /\ (best_distance = Inf \/ distance < best_distance)

\* The loop of the standard AI over UP, DOWN, LEFT, RIGHT from index i.
RECURSIVE greedy_loop(_, _, _, _, _, _, _)
greedy_loop(m, p, t, cur, i, best_direction, best_distance) ==
    IF i > Len(Directions)
    THEN best_direction
    ELSE LET d == Directions[i]
             distance == get_distance_for_direction(m, p, t, d)
         IN  IF is_opposite_direction(cur, d)
             THEN greedy_loop(m, p, t, cur, i + 1, best_direction, best_distance)
             ELSE IF distance # NoDistance /\ Less(distance, best_distance)
                  THEN greedy_loop(m, p, t, cur, i + 1, d, distance)
                  ELSE greedy_loop(m, p, t, cur, i + 1, best_direction, best_distance)

\* Frightened candidates that do not exclude the way back.
valid_directions_with_reverse(m, p, cur) ==
    {d \in DirectionSet :
        is_walkable(m, to_grid(p)[1] + value(d)[1], to_grid(p)[2] + value(d)[2])}

\* The directions random.choice can return in frightened mode.
valid_directions(m, p, cur) ==
    {d \in DirectionSet :
        /\ ~is_opposite_direction(cur, d)
        /\ is_walkable(m, to_grid(p)[1] + value(d)[1], to_grid(p)[2] + value(d)[2])}

\* A frightened choice that always takes the same candidate.
choose_direction_first_valid(m, p, st, cur, t) ==
    IF ~is_centered_on_tile(p)
    THEN {cur}
    ELSE IF st = "FRIGHTENED"
         THEN IF valid_directions(m, p, cur) # {}
              THEN {CHOOSE d \in valid_directions(m, p, cur) : TRUE}
              ELSE {cur}
         ELSE IF t = NoPosition
              THEN {cur}
              ELSE {greedy_loop(m, p, t, cur, 1, cur, Inf)}

\* A choice that turns back when nothing else is possible.
choose_direction_reverses_when_blocked(m, p, st, cur, t) ==
    IF ~is_centered_on_tile(p)
    THEN {cur}
    ELSE IF valid_directions(m, p, cur) = {}
         THEN {reverse_direction(cur)}
         ELSE IF st = "FRIGHTENED"
              THEN valid_directions(m, p, cur)
              ELSE IF t = NoPosition
                   THEN {cur}
                   ELSE {greedy_loop(m, p, t, cur, 1, cur, Inf)}

\* The set of directions choose_direction can leave in place.
choose_direction(m, p, st, cur, t) ==
    IF ~is_centered_on_tile(p)
    THEN {cur}
    ELSE IF st = "FRIGHTENED"
         THEN IF valid_directions(m, p, cur) # {}
              THEN valid_directions(m, p, cur)
              ELSE {cur}
         ELSE IF t = NoPosition
              THEN {cur}
              ELSE {greedy_loop(m, p, t, cur, 1, cur, Inf)}

\* A move that leaves a blocked ghost where it stands.
move_stalls_when_blocked(m, p, d, sp) ==
    LET new_x == p.x + value(d)[1] * sp
        new_y == p.y + value(d)[2] * sp
        new_grid == to_grid(Position(new_x, new_y))
    IN  IF new_grid[1] < 0
        THEN Position(SCREEN_WIDTH - TILE_SIZE, p.y)
        ELSE IF new_grid[1] >= m.width
             THEN Position(0, p.y)
             ELSE IF is_walkable(m, new_grid[1], new_grid[2])
                  THEN Position(new_x, new_y)
                  ELSE p

\* A move whose tunnel wrap checks walkability first.
move_checks_before_wrap(m, p, d, sp) ==
    LET new_x == p.x + value(d)[1] * sp
        new_y == p.y + value(d)[2] * sp
        new_grid == to_grid(Position(new_x, new_y))
        g == to_grid(p)
        center == grid_to_pixel(g[1], g[2])
    IN  IF is_walkable(m, new_grid[1], new_grid[2])
        THEN Position(new_x, new_y)
        ELSE IF new_grid[1] < 0
             THEN Position(SCREEN_WIDTH - TILE_SIZE, center[2])
             ELSE IF new_grid[1] >= m.width
                  THEN Position(0, center[2])
                  ELSE Position(center[1], center[2])

move(m, p, d, sp) ==
    LET new_x == p.x + value(d)[1] * sp
        new_y == p.y + value(d)[2] * sp
        new_grid == to_grid(Position(new_x, new_y))
    IN  IF new_grid[1] < 0
        THEN Position(SCREEN_WIDTH - TILE_SIZE, p.y)
        ELSE IF new_grid[1] >= m.width
             THEN Position(0, p.y)
             ELSE IF is_walkable(m, new_grid[1], new_grid[2])
                  THEN Position(new_x, new_y)
                  ELSE LET g == to_grid(p)
                           center == grid_to_pixel(g[1], g[2])
                       IN  Position(center[1], center[2])

\* An exit_house that sends an arrived ghost back into the house.
exit_house_falls_back(p, sp, hs, d) ==
    IF Abs(p.x - house_exit.x) > TOLERANCE
    THEN IF p.x < house_exit.x
         THEN [position |-> Position(p.x + sp, p.y), house_state |-> hs, direction |-> d]
         ELSE [position |-> Position(p.x - sp, p.y), house_state |-> hs, direction |-> d]
    ELSE IF Abs(p.y - house_exit.y) > TOLERANCE
         THEN [position |-> Position(p.x, p.y - sp), house_state |-> hs, direction |-> d]
         ELSE [position |-> p, house_state |-> "IN_HOUSE", direction |-> "LEFT"]

\* An exit_house that climbs first and aligns horizontally afterwards.
exit_house_vertical_first(p, sp, hs, d) ==
    IF Abs(p.y - house_exit.y) > TOLERANCE
    THEN [position |-> Position(p.x, p.y - sp), house_state |-> hs, direction |-> d]
    ELSE IF Abs(p.x - house_exit.x) > TOLERANCE
         THEN IF p.x < house_exit.x
              THEN [position |-> Position(p.x + sp, p.y), house_state |-> hs, direction |-> d]
              ELSE [position |-> Position(p.x - sp, p.y), house_state |-> hs, direction |-> d]
         ELSE [position |-> p, house_state |-> "ACTIVE", direction |-> "LEFT"]

\* An exit_house that accepts no horizontal distance from the exit point.
exit_house_exact_x(p, sp, hs, d) ==
    IF Abs(p.x - house_exit.x) > 0
    THEN IF p.x < house_exit.x
         THEN [position |-> Position(p.x + sp, p.y), house_state |-> hs, direction |-> d]
         ELSE [position |-> Position(p.x - sp, p.y), house_state |-> hs, direction |-> d]
    ELSE IF Abs(p.y - house_exit.y) > TOLERANCE
         THEN [position |-> Position(p.x, p.y - sp), house_state |-> hs, direction |-> d]
         ELSE [position |-> p, house_state |-> "ACTIVE", direction |-> "LEFT"]

\* exit_house: the position, house state and direction it leaves.
exit_house(p, sp, hs, d) ==
    IF Abs(p.x - house_exit.x) > TOLERANCE
    THEN IF p.x < house_exit.x
         THEN [position |-> Position(p.x + sp, p.y), house_state |-> hs, direction |-> d]
         ELSE [position |-> Position(p.x - sp, p.y), house_state |-> hs, direction |-> d]
    ELSE IF Abs(p.y - house_exit.y) > TOLERANCE
         THEN [position |-> Position(p.x, p.y - sp), house_state |-> hs, direction |-> d]
         ELSE [position |-> p, house_state |-> "ACTIVE", direction |-> "LEFT"]


(***************************************************************************)
(* The player snapshots the game loop can supply: the player stands on a   *)
(* tile center of the top row and faces one of the four directions or      *)
(* NONE (0, 0).                                                            *)
(***************************************************************************)
MaxPlayerTile == 1

PlayerPositions ==
    {Position(grid_to_pixel(gx, 0)[1], grid_to_pixel(gx, 0)[2]) : gx \in 0 .. MaxPlayerTile}

PlayerDirections == {<< 1, 0 >>}

(***************************************************************************)
(* Construction: Ghost.__init__ with starts_in_house = True (main.py).     *)
(***************************************************************************)
\* The value of since_frightened outside the 600 updates it counts.
NoCount == FRIGHTENED_DURATION + 1

Construct(m, start_position) ==
    /\ game_map = m
    /\ name = "Blinky"
    /\ blinky = NoBlinky
    /\ position = Position(start_position.x, start_position.y)
    /\ spawn_position = Position(start_position.x, start_position.y)
    /\ direction = "RIGHT"
    /\ speed = GHOST_SPEED
    /\ target = NoPosition
    /\ state = "SCATTER"
    /\ house_state = "IN_HOUSE"
    /\ frightened_timer = 0
    /\ lastOp = "init"
    /\ since_frightened = NoCount

Init ==
    /\ \E start_position \in StartPositions : Construct(Corridor, start_position)
    /\ pacman = NoPlayer

\* Fields no operation assigns after construction, and the player, which no
\* operation of a ghost assigns.
Fixed == << spawn_position, game_map, name, blinky, pacman >>

(***************************************************************************)
(* Commands.                                                               *)
(***************************************************************************)
\* start_frightened without its guard on the lifecycle state.
start_frightened_unguarded ==
    /\ state' = "FRIGHTENED"
    /\ frightened_timer' = FRIGHTENED_DURATION
    /\ speed' = FRIGHTENED_SPEED
    /\ direction' = reverse_direction(direction)
    /\ since_frightened' = 0
    /\ lastOp' = "start_frightened"
    /\ UNCHANGED << position, target, house_state, Fixed >>

\* start_frightened with a countdown one frame too long.
start_frightened_overlong ==
    /\ IF state \notin {"EATEN", "FRIGHTENED"}
       THEN /\ state' = "FRIGHTENED"
            /\ frightened_timer' = FRIGHTENED_DURATION + 1
            /\ speed' = FRIGHTENED_SPEED
            /\ direction' = reverse_direction(direction)
            /\ since_frightened' = 0
       ELSE UNCHANGED << state, frightened_timer, speed, direction, since_frightened >>
    /\ lastOp' = "start_frightened"
    /\ UNCHANGED << position, target, house_state, Fixed >>

start_frightened ==
    /\ IF state \notin {"EATEN", "FRIGHTENED"}
       THEN /\ state' = "FRIGHTENED"
            /\ frightened_timer' = FRIGHTENED_DURATION
            /\ speed' = FRIGHTENED_SPEED
            /\ direction' = reverse_direction(direction)
            /\ since_frightened' = 0
       ELSE UNCHANGED << state, frightened_timer, speed, direction, since_frightened >>
    /\ lastOp' = "start_frightened"
    /\ UNCHANGED << position, target, house_state, Fixed >>

\* get_eaten that forgets to set the return speed.
get_eaten_keeps_speed ==
    /\ state' = "EATEN"
    /\ lastOp' = "get_eaten"
    /\ since_frightened' = NoCount
    /\ UNCHANGED << speed, position, direction, target, house_state, frightened_timer,
                    Fixed >>

get_eaten ==
    /\ state' = "EATEN"
    /\ speed' = EATEN_SPEED
    /\ lastOp' = "get_eaten"
    /\ since_frightened' = NoCount
    /\ UNCHANGED << position, direction, target, house_state, frightened_timer, Fixed >>

\* release_from_house without its guard on the house state.
release_from_house_unguarded ==
    /\ house_state' = "EXITING"
    /\ lastOp' = "release_from_house"
    /\ UNCHANGED << position, direction, speed, target, state, frightened_timer, Fixed,
                    since_frightened >>

release_from_house ==
    /\ IF house_state = "IN_HOUSE"
       THEN house_state' = "EXITING"
       ELSE UNCHANGED house_state
    /\ lastOp' = "release_from_house"
    /\ UNCHANGED << position, direction, speed, target, state, frightened_timer, Fixed,
                    since_frightened >>

\* return_to_house that forgets to restore the base speed.
return_to_house_keeps_speed ==
    /\ position' = Position(spawn_position.x, spawn_position.y)
    /\ house_state' = "IN_HOUSE"
    /\ direction' = "RIGHT"
    /\ state' = "SCATTER"
    /\ lastOp' = "return_to_house"
    /\ since_frightened' = NoCount
    /\ UNCHANGED << speed, target, frightened_timer, Fixed >>

\* return_to_house that hands the ghost to the chase mode.
return_to_house_to_chase ==
    /\ position' = Position(spawn_position.x, spawn_position.y)
    /\ house_state' = "IN_HOUSE"
    /\ direction' = "RIGHT"
    /\ state' = "CHASE"
    /\ speed' = GHOST_SPEED
    /\ lastOp' = "return_to_house"
    /\ since_frightened' = NoCount
    /\ UNCHANGED << target, frightened_timer, Fixed >>

return_to_house ==
    /\ position' = Position(spawn_position.x, spawn_position.y)
    /\ house_state' = "IN_HOUSE"
    /\ direction' = "RIGHT"
    /\ state' = "SCATTER"
    /\ speed' = GHOST_SPEED
    /\ lastOp' = "return_to_house"
    /\ since_frightened' = NoCount
    /\ UNCHANGED << target, frightened_timer, Fixed >>

(***************************************************************************)
(* update: one frame of one ghost.                                         *)
(***************************************************************************)
\* Step 2, the frightened timer: the countdown, lifecycle state and speed
\* it leaves.
frightened_tick(st, timer, sp) ==
    IF st = "FRIGHTENED"
    THEN IF timer - 1 <= 0
         THEN [state |-> "SCATTER", frightened_timer |-> timer - 1, speed |-> GHOST_SPEED]
         ELSE [state |-> st, frightened_timer |-> timer - 1, speed |-> sp]
    ELSE [state |-> st, frightened_timer |-> timer, speed |-> sp]

\* Step 3, the guard of the eaten-arrival reset.
reached_house_exit(st, p) ==
    /\ st = "EATEN"
    /\ distance_to_sq(p, house_exit) < TILE_SIZE * TILE_SIZE

\* A frame target that asks the targeting strategy in every lifecycle state.
frame_target_always_strategy(st, pacman_x, pacman_y, pacman_direction) ==
    LET t == calculate_target(name, position, blinky, game_map,
                              pacman_x, pacman_y, pacman_direction)
    IN  Position(t[1], t[2])

\* Step 5, the target of the frame.
frame_target(st, pacman_x, pacman_y, pacman_direction) ==
    IF st = "EATEN"
    THEN Position(house_exit.x, house_exit.y)
    ELSE IF st = "FRIGHTENED"
         THEN Position(0, 0)
         ELSE LET t == calculate_target(name, position, blinky, game_map,
                                        pacman_x, pacman_y, pacman_direction)
              IN  Position(t[1], t[2])

\* A respawn that confines the ghost instead of letting it exit again.
respawn_in_house_confined ==
    /\ state' = "SCATTER"
    /\ speed' = GHOST_SPEED
    /\ position' = Position(spawn_position.x, spawn_position.y)
    /\ house_state' = "IN_HOUSE"
    /\ direction' = "UP"

\* A respawn that leaves the ghost where it was eaten-arrived.
respawn_in_house_in_place ==
    /\ state' = "SCATTER"
    /\ speed' = GHOST_SPEED
    /\ UNCHANGED position
    /\ house_state' = "EXITING"
    /\ direction' = "UP"

\* A respawn that keeps the return speed.
respawn_in_house_keeps_speed ==
    /\ state' = "SCATTER"
    /\ UNCHANGED speed
    /\ position' = Position(spawn_position.x, spawn_position.y)
    /\ house_state' = "EXITING"
    /\ direction' = "UP"

respawn_in_house ==
    /\ state' = "SCATTER"
    /\ speed' = GHOST_SPEED
    /\ position' = Position(spawn_position.x, spawn_position.y)
    /\ house_state' = "EXITING"
    /\ direction' = "UP"

\* An update that computes the frame's target for an EXITING ghost too.
update_frame_targets_while_exiting(tick, pacman_x, pacman_y, pacman_direction) ==
    /\ frightened_timer' = tick.frightened_timer
    /\ lastOp' = "update"
    /\ since_frightened' = IF since_frightened \in 0 .. FRIGHTENED_DURATION - 1
                           THEN since_frightened + 1
                           ELSE NoCount
    /\ UNCHANGED Fixed
    /\ IF reached_house_exit(tick.state, position)
       THEN /\ respawn_in_house
            /\ UNCHANGED target
       ELSE /\ state' = tick.state
            /\ speed' = tick.speed
            /\ IF house_state = "IN_HOUSE"
               THEN UNCHANGED << position, direction, target, house_state >>
               ELSE IF house_state = "EXITING"
                    THEN LET r == exit_house(position, tick.speed, house_state, direction)
                         IN  /\ position' = r.position
                             /\ house_state' = r.house_state
                             /\ direction' = r.direction
                             /\ target' = frame_target(tick.state, pacman_x, pacman_y,
                                                       pacman_direction)
                    ELSE LET t == frame_target(tick.state, pacman_x, pacman_y,
                                               pacman_direction)
                         IN  /\ target' = t
                             /\ \E d \in choose_direction(game_map, position,
                                                          tick.state, direction, t) :
                                    /\ direction' = d
                                    /\ position' = move(game_map, position, d, tick.speed)
                             /\ UNCHANGED house_state

\* Steps 3 to 7 of update, after step 2 has left the countdown, lifecycle
\* state and speed of tick.
update_frame(tick, pacman_x, pacman_y, pacman_direction) ==
    /\ frightened_timer' = tick.frightened_timer
    /\ lastOp' = "update"
    /\ since_frightened' = IF since_frightened \in 0 .. FRIGHTENED_DURATION - 1
                           THEN since_frightened + 1
                           ELSE NoCount
    /\ UNCHANGED Fixed
    /\ IF reached_house_exit(tick.state, position)
       THEN /\ respawn_in_house
            /\ UNCHANGED target
       ELSE /\ state' = tick.state
            /\ speed' = tick.speed
            /\ IF house_state = "IN_HOUSE"
               THEN UNCHANGED << position, direction, target, house_state >>
               ELSE IF house_state = "EXITING"
                    THEN LET r == exit_house(position, tick.speed, house_state, direction)
                         IN  /\ position' = r.position
                             /\ house_state' = r.house_state
                             /\ direction' = r.direction
                             /\ UNCHANGED target
                    ELSE LET t == frame_target(tick.state, pacman_x, pacman_y,
                                               pacman_direction)
                         IN  /\ target' = t
                             /\ \E d \in choose_direction(game_map, position,
                                                          tick.state, direction, t) :
                                    /\ direction' = d
                                    /\ position' = move(game_map, position, d, tick.speed)
                             /\ UNCHANGED house_state

\* An update whose countdown runs only after the IN_HOUSE early return.
update_tick_after_house_check(pacman_x, pacman_y, pacman_direction) ==
    update_frame(IF house_state = "IN_HOUSE"
                 THEN [state |-> state, frightened_timer |-> frightened_timer,
                       speed |-> speed]
                 ELSE frightened_tick(state, frightened_timer, speed),
                 pacman_x, pacman_y, pacman_direction)

\* An update whose countdown runs for ACTIVE ghosts only.
update_tick_only_when_active(pacman_x, pacman_y, pacman_direction) ==
    update_frame(IF house_state # "ACTIVE"
                 THEN [state |-> state, frightened_timer |-> frightened_timer,
                       speed |-> speed]
                 ELSE frightened_tick(state, frightened_timer, speed),
                 pacman_x, pacman_y, pacman_direction)

update(pacman_x, pacman_y, pacman_direction) ==
    update_frame(frightened_tick(state, frightened_timer, speed),
                 pacman_x, pacman_y, pacman_direction)

Update ==
    \E p \in PlayerPositions, pd \in PlayerDirections : update(p.x, p.y, pd)

Next ==
    \/ Update
    \/ start_frightened
    \/ get_eaten
    \/ release_from_house
    \/ return_to_house

Spec == Init /\ [][Next]_vars

(***************************************************************************)
(* The game without power pellets (start_frightened() is never called),    *)
(* with the game loop of main.py calling update() in every frame.          *)
(***************************************************************************)
LiveInit ==
    /\ \E start_position \in StartPositions : Construct(Corridor, start_position)
    /\ pacman = NoPlayer

LiveNext ==
    \/ Update
    \/ get_eaten
    \/ release_from_house
    \/ return_to_house

LiveSpec == LiveInit /\ [][LiveNext]_vars /\ WF_vars(Update)


(***************************************************************************)
(* The unit harness of the test suite (tests/test_ghost.py): a ghost is    *)
(* constructed outside the house, its fields are arranged, and one method  *)
(* is called on it.                                                        *)
(***************************************************************************)
\* A maze: the top row is the tunnel row, the left column ends in a dead
\* end two tiles below it, and one tile hangs below the right end.
Maze ==
    [width |-> MAP_WIDTH, height |-> 3,
     walkable |-> {<< 0, 0 >>, << 1, 0 >>, << 2, 0 >>, << 0, 1 >>, << 0, 2 >>, << 2, 1 >>}]

\* A single walkable tile with no walkable neighbour.
Box == [width |-> MAP_WIDTH, height |-> 4, walkable |-> {<< 1, 1 >>}]

Names == {"Blinky", "Pinky", "Inky", "Clyde"}

\* Speed of a ghost in a lifecycle state, as the commands leave it.
speed_of(st) ==
    CASE st = "FRIGHTENED" -> FRIGHTENED_SPEED
      [] st = "EATEN"      -> EATEN_SPEED
      [] OTHER             -> GHOST_SPEED

\* Facing vectors a caller can pass: the four directions, NONE and the
\* diagonals.
FacingVectors == {<< dx, dy >> : dx \in -1 .. 1, dy \in -1 .. 1}

Player(px, py, pd) == [x |-> px, y |-> py, direction |-> pd]

(***************************************************************************)
(* calculate_target called on a newly constructed ghost of each variant.   *)
(***************************************************************************)
TargetPlayerPositions ==
    {Position(100, 100), Position(500, 0), Position(100, 0), Position(10, 30),
     Position(160, 0), Position(161, 0)}

PartnerPositions == {Position(60, 60), Position(10, 10), Position(112, 31)}

TargetSelfPositions == {Position(0, 0), Position(30, 10)}

TargetInit ==
    /\ game_map \in {Maze, Box}
    /\ name \in Names
    /\ blinky \in (IF name = "Inky" THEN PartnerPositions \cup {NoBlinky} ELSE {NoBlinky})
    /\ position \in TargetSelfPositions
    /\ spawn_position = position
    /\ direction = "RIGHT"
    /\ speed = GHOST_SPEED
    /\ target = NoPosition
    /\ state = "SCATTER"
    /\ house_state = "IN_HOUSE"
    /\ frightened_timer = 0
    /\ lastOp = "init"
    /\ since_frightened = NoCount
    /\ pacman \in {Player(p.x, p.y, pd) : p \in TargetPlayerPositions, pd \in FacingVectors}

\* self._target = self.calculate_target(pacman_x, pacman_y, pacman_direction)
calculate_target_call ==
    /\ LET t == calculate_target(name, position, blinky, game_map,
                                 pacman.x, pacman.y, pacman.direction)
       IN  target' = Position(t[1], t[2])
    /\ lastOp' = "calculate_target"
    /\ UNCHANGED << position, direction, speed, state, house_state, frightened_timer,
                    since_frightened, Fixed >>

TargetNext == calculate_target_call

TargetSpec == TargetInit /\ [][TargetNext]_vars

(***************************************************************************)
(* _choose_direction, _move and update called on an ACTIVE ghost arranged  *)
(* anywhere in a walkable tile.                                            *)
(***************************************************************************)
\* Offsets from a tile center, along one axis, of the arranged positions.
Offsets == {-10, -9, -3, -2, -1, 0, 1, 2, 3, 9}

\* Tile centers, points of the two axes through them, and the points a
\* ghost can leave the house at (within the exit tolerance on both axes).
StepPositions(m) ==
    UNION {LET c == grid_to_pixel(g[1], g[2])
           IN  {Position(c[1] + o, c[2]) : o \in Offsets}
                 \cup {Position(c[1], c[2] + o) : o \in Offsets}
                 \cup {Position(c[1] + TOLERANCE, c[2] + TOLERANCE)} : g \in m.walkable}

StepTargets == {NoPosition, Position(10, 10), Position(50, 50), Position(30, 30)}

StepPlayers == {Player(50, 10, << 1, 0 >>), Player(10, 50, << 0, 0 >>)}

StepInit ==
    /\ game_map \in {Maze, Box}
    /\ name = "Blinky"
    /\ blinky = NoBlinky
    /\ position \in StepPositions(game_map)
    /\ spawn_position = HouseStart
    /\ direction \in DirectionSet
    /\ state \in {"SCATTER", "FRIGHTENED", "EATEN"}
    /\ speed = speed_of(state)
    /\ target \in StepTargets
    /\ house_state = "ACTIVE"
    /\ frightened_timer \in (IF state = "FRIGHTENED" THEN {1, FRIGHTENED_DURATION} ELSE {0})
    /\ lastOp = "init"
    /\ since_frightened = (IF state = "FRIGHTENED"
                           THEN FRIGHTENED_DURATION - frightened_timer
                           ELSE NoCount)
    /\ pacman \in StepPlayers

choose_direction_call ==
    /\ direction' \in choose_direction(game_map, position, state, direction, target)
    /\ lastOp' = "choose_direction"
    /\ UNCHANGED << position, speed, target, state, house_state, frightened_timer,
                    since_frightened, Fixed >>

move_call ==
    /\ position' = move(game_map, position, direction, speed)
    /\ lastOp' = "move"
    /\ UNCHANGED << direction, speed, target, state, house_state, frightened_timer,
                    since_frightened, Fixed >>

\* update() called once on the arranged ghost.
update_call ==
    /\ lastOp = "init"
    /\ update(pacman.x, pacman.y, pacman.direction)

StepNext ==
    \/ choose_direction_call
    \/ move_call
    \/ update_call

StepSpec == StepInit /\ [][StepNext]_vars

(***************************************************************************)
(* The game loop on a maze with a dead end, without power pellets.         *)
(***************************************************************************)
MazeLiveInit ==
    /\ \E start_position \in StartPositions : Construct(Maze, start_position)
    /\ pacman = NoPlayer

MazeLiveSpec == MazeLiveInit /\ [][LiveNext]_vars /\ WF_vars(Update)

(***************************************************************************)
(* The game loop on a map whose top row is open at the left edge only.     *)
(***************************************************************************)
\* The top row without its right end: the left edge of the map is
\* walkable, the tile a wrap from there lands in is a wall.
HalfCorridor ==
    [width |-> MAP_WIDTH, height |-> 3, walkable |-> {<< 0, 0 >>, << 1, 0 >>}]

HalfCorridorInit ==
    /\ \E start_position \in StartPositions : Construct(HalfCorridor, start_position)
    /\ pacman = NoPlayer

HalfCorridorSpec == HalfCorridorInit /\ [][LiveNext]_vars

(***************************************************************************)
(* Leaving the house: a ghost waits at its spawn position, SCATTER,        *)
(* FRIGHTENED or EATEN as the commands leave it, is released, and the game *)
(* loop calls update() in every frame; it can be eaten on its way.         *)
(***************************************************************************)
\* Spawn positions as main.py lays them out around the exit point: on it,
\* and a tile below it to the left, in line and to the right.
ExitStarts ==
    {ExitStart, HouseStart,
     Position(house_exit.x, house_exit.y + TILE_SIZE),
     Position(house_exit.x - TILE_SIZE, house_exit.y + TILE_SIZE)}

\* The longest countdown a frightened ghost waiting in the house has left:
\* more than the frames of the slowest way out.
MaxCountdownLeft == 60

ExitInit ==
    /\ game_map = Corridor
    /\ name = "Blinky"
    /\ blinky = NoBlinky
    /\ position \in ExitStarts
    /\ spawn_position = position
    /\ state \in {"SCATTER", "FRIGHTENED", "EATEN"}
    /\ speed = speed_of(state)
    /\ direction = (IF state = "FRIGHTENED" THEN reverse_direction("RIGHT") ELSE "RIGHT")
    /\ target = NoPosition
    /\ house_state = "IN_HOUSE"
    /\ frightened_timer \in (IF state = "FRIGHTENED" THEN 1 .. MaxCountdownLeft ELSE {0})
    /\ lastOp = "init"
    /\ since_frightened = (IF state = "FRIGHTENED"
                           THEN FRIGHTENED_DURATION - frightened_timer
                           ELSE NoCount)
    /\ pacman = NoPlayer

ExitNext ==
    \/ Update
    \/ release_from_house
    \/ get_eaten

ExitSpec == ExitInit /\ [][ExitNext]_vars /\ WF_vars(Update)


(***************************************************************************)
(* The game loop over two ghosts (main.py): the ghost of the variables is  *)
(* Inky, and blinky is its partner object, a second ghost with its own     *)
(* fields; before is a history field, the partner's position when the tick *)
(* began.  Pinky and Clyde, which no ghost reads, are left out.  Commands  *)
(* arrive between two ticks (from pacman.update), and no power pellet is   *)
(* eaten.                                                                  *)
(***************************************************************************)
\* Blinky(game_map, start_x, start_y)
ConstructPartner(start_position) ==
    [x |-> start_position.x, y |-> start_position.y,
     spawn_position |-> Position(start_position.x, start_position.y),
     direction |-> "RIGHT", speed |-> GHOST_SPEED, target |-> NoPosition,
     state |-> "SCATTER", house_state |-> "IN_HOUSE", frightened_timer |-> 0,
     before |-> Position(start_position.x, start_position.y)]

\* The ghosts Blinky.update() can leave of the ghost b.
update_partner(b, m, pacman_x, pacman_y, pacman_direction) ==
    LET tick == frightened_tick(b.state, b.frightened_timer, b.speed)
        p == Position(b.x, b.y)
        ticked == [b EXCEPT !.state = tick.state, !.speed = tick.speed,
                            !.frightened_timer = tick.frightened_timer]
    IN  IF reached_house_exit(tick.state, p)
        THEN {[ticked EXCEPT !.state = "SCATTER", !.speed = GHOST_SPEED,
                             !.x = b.spawn_position.x, !.y = b.spawn_position.y,
                             !.house_state = "EXITING", !.direction = "UP"]}
        ELSE IF b.house_state = "IN_HOUSE"
             THEN {ticked}
             ELSE IF b.house_state = "EXITING"
                  THEN LET r == exit_house(p, tick.speed, b.house_state, b.direction)
                       IN  {[ticked EXCEPT !.x = r.position.x, !.y = r.position.y,
                                           !.house_state = r.house_state,
                                           !.direction = r.direction]}
                  ELSE LET ct == calculate_target("Blinky", p, NoBlinky, m,
                                                  pacman_x, pacman_y, pacman_direction)
                           t == IF tick.state = "EATEN"
                                THEN Position(house_exit.x, house_exit.y)
                                ELSE IF tick.state = "FRIGHTENED"
                                     THEN Position(0, 0)
                                     ELSE Position(ct[1], ct[2])
                       IN  {LET q == move(m, p, d, tick.speed)
                            IN  [ticked EXCEPT !.target = t, !.direction = d,
                                               !.x = q.x, !.y = q.y] :
                                d \in choose_direction(m, p, tick.state, b.direction, t)}

\* A ghosts list in which Inky comes before the partner it reads.
UpdateOrder_inky_first == << "Inky", "Blinky" >>

\* The ghosts list of main.py, in the order the loop updates it.
UpdateOrder == << "Blinky", "Inky" >>

\* lastOp after the update of ghost n.
update_op(n) == IF n = "Blinky" THEN "update_blinky" ELSE "update"

\* The loop is between two ticks: not between pacman.update and the update
\* of the last ghost.
between_ticks == lastOp \notin {"pacman", update_op(UpdateOrder[1])}

\* It is the turn of ghost n in the loop over the ghosts.
turn_of(n) ==
    IF UpdateOrder[1] = n
    THEN lastOp = "pacman"
    ELSE lastOp = update_op(UpdateOrder[1])

InkyFields == << position, spawn_position, direction, speed, target, state,
                 house_state, frightened_timer, game_map, name, since_frightened >>

LoopPlayers == {Player(10, 10, << 1, 0 >>), Player(50, 10, << -1, 0 >>)}

LoopInit ==
    /\ game_map = Corridor
    /\ name = "Inky"
    /\ blinky = ConstructPartner(ExitStart)
    /\ position = Position(HouseStart.x, HouseStart.y)
    /\ spawn_position = Position(HouseStart.x, HouseStart.y)
    /\ direction = "RIGHT"
    /\ speed = GHOST_SPEED
    /\ target = NoPosition
    /\ state = "SCATTER"
    /\ house_state = "IN_HOUSE"
    /\ frightened_timer = 0
    /\ lastOp = "init"
    /\ since_frightened = NoCount
    /\ pacman \in LoopPlayers

\* pacman.handle_input(); pacman.update(ghosts): the tick begins.
pacman_update ==
    /\ between_ticks
    /\ pacman' \in LoopPlayers
    /\ blinky' = [blinky EXCEPT !.before = Position(blinky.x, blinky.y)]
    /\ lastOp' = "pacman"
    /\ UNCHANGED InkyFields

\* A partner update that pushes Inky along with the partner.
update_blinky_pushes_inky ==
    /\ turn_of("Blinky")
    /\ blinky' \in update_partner(blinky, game_map, pacman.x, pacman.y, pacman.direction)
    /\ position' = Position(position.x + (blinky'.x - blinky.x), position.y)
    /\ lastOp' = "update_blinky"
    /\ UNCHANGED << spawn_position, direction, speed, target, state, house_state,
                    frightened_timer, game_map, name, since_frightened, pacman >>

\* ghost.update(pacman.x, pacman.y, current_dir) for the partner.
update_blinky ==
    /\ turn_of("Blinky")
    /\ blinky' \in update_partner(blinky, game_map, pacman.x, pacman.y, pacman.direction)
    /\ lastOp' = "update_blinky"
    /\ UNCHANGED << InkyFields, pacman >>

\* ghost.update(pacman.x, pacman.y, current_dir) for Inky.
update_inky ==
    /\ turn_of("Inky")
    /\ update(pacman.x, pacman.y, pacman.direction)

\* The command on Inky: its release.
command_inky ==
    /\ between_ticks
    /\ release_from_house

\* Commands on the partner.
release_blinky ==
    /\ between_ticks
    /\ blinky' = [blinky EXCEPT !.house_state = IF blinky.house_state = "IN_HOUSE"
                                                 THEN "EXITING"
                                                 ELSE blinky.house_state]
    /\ lastOp' = "release_blinky"
    /\ UNCHANGED << InkyFields, pacman >>

eat_blinky ==
    /\ between_ticks
    /\ blinky' = [blinky EXCEPT !.state = "EATEN", !.speed = EATEN_SPEED]
    /\ lastOp' = "eat_blinky"
    /\ UNCHANGED << InkyFields, pacman >>

LoopNext ==
    \/ pacman_update
    \/ update_blinky
    \/ update_inky
    \/ command_inky
    \/ release_blinky
    \/ eat_blinky

LoopSpec == LoopInit /\ [][LoopNext]_vars


(***************************************************************************)
(* Properties.                                                             *)
(***************************************************************************)
\* C1: after return_to_house(), from whatever state it was called in, the
\* position is the spawn position, the house state IN_HOUSE, the lifecycle
\* SCATTER, the direction RIGHT and the speed the base speed; a second call
\* changes nothing.
C1_ReturnToHouse ==
    lastOp = "return_to_house" =>
        /\ position = spawn_position
        /\ house_state = "IN_HOUSE"
        /\ state = "SCATTER"
        /\ direction = "RIGHT"
        /\ speed = GHOST_SPEED
        /\ ENABLED (return_to_house /\ UNCHANGED vars)

\* return_to_house() was called on a ghost that had been frightened and had
\* navigated the maze.
C1_Witness ==
    /\ lastOp = "return_to_house"
    /\ frightened_timer \in 1 .. FRIGHTENED_DURATION - 1
    /\ target # NoPosition

\* C2: release_from_house() takes IN_HOUSE to EXITING and leaves EXITING
\* and ACTIVE alone; it never changes position, lifecycle state, direction,
\* speed or countdown; a second call changes nothing.
C2_ReleaseFromHouse ==
    /\ [](lastOp = "release_from_house" =>
            ENABLED (release_from_house /\ UNCHANGED vars))
    /\ [][lastOp' = "release_from_house" =>
            /\ house_state' = IF house_state = "IN_HOUSE" THEN "EXITING" ELSE house_state
            /\ UNCHANGED << position, state, direction, speed, frightened_timer >>]_vars

\* release_from_house() has just taken a frightened ghost out of IN_HOUSE.
C2_Witness ==
    /\ lastOp = "release_from_house"
    /\ house_state = "EXITING"
    /\ position = spawn_position
    /\ state = "FRIGHTENED"

\* C3: start_frightened() on a SCATTER or CHASE ghost sets FRIGHTENED, the
\* countdown 600, the speed 1, which is below the base speed, and turns the
\* facing direction into its opposite.
C3_StartFrightened ==
    [][(lastOp' = "start_frightened" /\ state \in {"SCATTER", "CHASE"}) =>
            /\ state' = "FRIGHTENED"
            /\ frightened_timer' = 600
            /\ speed' = 1
            /\ speed' < GHOST_SPEED
            /\ direction' # direction
            /\ value(direction')[1] = -value(direction)[1]
            /\ value(direction')[2] = -value(direction)[2]]_vars

\* start_frightened() has just frightened a ghost that was moving LEFT
\* through the maze.
C3_Witness ==
    /\ lastOp = "start_frightened"
    /\ frightened_timer = 600
    /\ house_state = "ACTIVE"
    /\ direction = "RIGHT"

\* C4: start_frightened() on an EATEN or FRIGHTENED ghost changes nothing:
\* lifecycle state, countdown, speed and direction stay.
C4_StartFrightenedNoOp ==
    [][(lastOp' = "start_frightened" /\ state \in {"EATEN", "FRIGHTENED"}) =>
            UNCHANGED << state, frightened_timer, speed, direction, position, target,
                         house_state >>]_vars

\* start_frightened() was called on a ghost already frightened for a while.
C4_Witness ==
    /\ lastOp = "start_frightened"
    /\ state = "FRIGHTENED"
    /\ frightened_timer < 600

\* C5: an update() of a FRIGHTENED ghost decreases the countdown by exactly
\* 1 and leaves FRIGHTENED, for SCATTER and the base speed, exactly when the
\* countdown has reached <= 0; so the ghost is FRIGHTENED after each of the
\* first 599 updates that follow start_frightened() and SCATTER after the
\* 600th.
C5_FrightenedCountdown ==
    /\ [](since_frightened \in 0 .. 599 => state = "FRIGHTENED")
    /\ [](since_frightened = 600 => (state = "SCATTER" /\ speed = GHOST_SPEED))
    /\ [][(lastOp' = "update" /\ state = "FRIGHTENED") =>
            /\ frightened_timer' = frightened_timer - 1
            /\ (frightened_timer' <= 0 => (state' = "SCATTER" /\ speed' = GHOST_SPEED))
            /\ (frightened_timer' > 0 => (state' = "FRIGHTENED" /\ speed' = speed))]_vars

\* The 600th update after start_frightened() has just run.
C5_Witness ==
    /\ since_frightened = 600
    /\ lastOp = "update"
    /\ frightened_timer = 0

C7_EatenOnlyFromFrightened ==
    [][(lastOp' = "get_eaten" /\ state \in {"SCATTER", "CHASE"}) =>
            UNCHANGED << state, speed >>]_vars

\* C8: an update() that starts with the ghost EATEN and less than one tile
\* width from the house-exit point resets it (SCATTER, base speed, spawn
\* position, EXITING) and does nothing else in that frame: the target is
\* not computed and the position is the spawn position itself.
C8_EatenArrival ==
    [][(/\ lastOp' = "update"
        /\ state = "EATEN"
        /\ distance_to_sq(position, house_exit) < TILE_SIZE * TILE_SIZE) =>
            /\ state' = "SCATTER"
            /\ speed' = GHOST_SPEED
            /\ position' = spawn_position
            /\ house_state' = "EXITING"
            /\ direction' = "UP"
            /\ target' = target]_vars

\* An eaten ghost that was heading for the house exit from a tile away has
\* just been reset.
C8_Witness ==
    /\ lastOp = "update"
    /\ state = "SCATTER"
    /\ house_state = "EXITING"
    /\ position = spawn_position
    /\ spawn_position = HouseStart
    /\ direction = "UP"
    /\ target = Position(house_exit.x, house_exit.y)

\* C9: once get_eaten() has been called and only update() calls follow, the
\* ghost does not stay EATEN forever: it is reset (SCATTER, EXITING, base
\* speed) and, no command following, never EATEN again.
C9_EatenReturns ==
    (<>[](lastOp = "update")) =>
        /\ <>[](state # "EATEN")
        /\ [](state = "EATEN" =>
                <>(state = "SCATTER" /\ house_state = "EXITING" /\ speed = GHOST_SPEED))

\* C10: an update() of an IN_HOUSE ghost leaves position, direction and
\* target as they are, in every lifecycle state.
C10_InHouseUpdate ==
    [][(lastOp' = "update" /\ house_state = "IN_HOUSE") =>
            UNCHANGED << position, direction, target >>]_vars

\* C11: a step that takes the house state from IN_HOUSE to EXITING is a
\* release_from_house() call, never an update() or another command.
C11_InHouseLeftOnlyByRelease ==
    [][(house_state = "IN_HOUSE" /\ house_state' = "EXITING") =>
            lastOp' = "release_from_house"]_vars

\* C12 (as stated): the only step that leaves ACTIVE is return_to_house(),
\* to IN_HOUSE; every update() and every other command keeps ACTIVE.
C12_ActiveTerminal ==
    [][(house_state = "ACTIVE" /\ house_state' # "ACTIVE") =>
            (lastOp' = "return_to_house" /\ house_state' = "IN_HOUSE")]_vars

\* C12 (amended): ACTIVE is left only by return_to_house(), to IN_HOUSE, and
\* by the eaten-arrival reset of an update(), to EXITING; every other
\* update() and every other command keeps ACTIVE.
C12_ActiveLeftByReturnOrArrival ==
    [][(house_state = "ACTIVE" /\ house_state' # "ACTIVE") =>
            \/ (lastOp' = "return_to_house" /\ house_state' = "IN_HOUSE")
            \/ /\ lastOp' = "update"
               /\ state = "EATEN"
               /\ distance_to_sq(position, house_exit) < TILE_SIZE * TILE_SIZE
               /\ house_state' = "EXITING"]_vars

\* A ghost that left the house from the exit point, was eaten in the maze
\* and headed for the exit, has just been reset out of ACTIVE by update().
C12_Witness ==
    /\ lastOp = "update"
    /\ house_state = "EXITING"
    /\ state = "SCATTER"
    /\ spawn_position = ExitStart
    /\ position = spawn_position
    /\ direction = "UP"
    /\ target = Position(house_exit.x, house_exit.y)

\* C13 (as stated): no step of any operation takes the house state from
\* EXITING to IN_HOUSE.
C13_NoExitingToInHouse ==
    [][~(house_state = "EXITING" /\ house_state' = "IN_HOUSE")]_vars

\* C13 (amended): the only step that takes the house state from EXITING to
\* IN_HOUSE is return_to_house(), which resets from every house state; no
\* update(), with its exit-house step and its eaten-arrival reset, and no
\* other command does.
C13_ExitingToInHouseOnlyByReturn ==
    [][(house_state = "EXITING" /\ house_state' = "IN_HOUSE") =>
            lastOp' = "return_to_house"]_vars

\* An EXITING ghost on its way to the exit point, on which return_to_house()
\* acts by taking it back to IN_HOUSE at its spawn position.
C13_Witness ==
    /\ house_state = "EXITING"
    /\ position # spawn_position
    /\ ENABLED (return_to_house /\ house_state' = "IN_HOUSE" /\ position' = spawn_position)

\* C14: in an update() of an ACTIVE ghost that the eaten-arrival check does
\* not reset, the target of the frame is the house-exit point when the ghost
\* is EATEN and the variant's calculate_target(player) when it is SCATTER or
\* CHASE (the lifecycle state being the one the countdown step leaves); a
\* FRIGHTENED or EATEN ghost never gets the strategy's result as target.
C14_FrameTarget ==
    [][(/\ lastOp' = "update"
        /\ house_state = "ACTIVE"
        /\ ~(state = "EATEN"
                /\ distance_to_sq(position, house_exit) < TILE_SIZE * TILE_SIZE)) =>
            LET t == calculate_target(name, position, blinky, game_map,
                                      pacman.x, pacman.y, pacman.direction)
            IN  /\ state' = "EATEN" => target' = Position(house_exit.x, house_exit.y)
                /\ state' \in {"SCATTER", "CHASE"} => target' = Position(t[1], t[2])
                /\ state' \in {"FRIGHTENED", "EATEN"} => target' # Position(t[1], t[2])]_vars

\* The update() in which the frightened countdown expired has targeted the
\* player with the strategy of the variant.
C14_Witness ==
    /\ lastOp = "update"
    /\ house_state = "ACTIVE"
    /\ state = "SCATTER"
    /\ since_frightened = FRIGHTENED_DURATION
    /\ target = Position(pacman.x, pacman.y)

\* C15: opposite is an involution on UP/DOWN/LEFT/RIGHT, and the direction
\* _choose_direction() leaves is the opposite of the direction on entry at
\* most in the frightened dead end: a FRIGHTENED ghost centered on a tile
\* none of whose neighbours, the one behind apart, is walkable.
C15_NeverReverses ==
    /\ [](\A d \in DirectionSet :
            /\ reverse_direction(reverse_direction(d)) = d
            /\ reverse_direction(d) # d
            /\ is_opposite_direction(d, reverse_direction(d)))
    /\ [][(/\ lastOp' = "choose_direction"
           /\ value(direction')[1] = -value(direction)[1]
           /\ value(direction')[2] = -value(direction)[2]) =>
               /\ state = "FRIGHTENED"
               /\ Abs(position.x - ((position.x \div TILE_SIZE) * TILE_SIZE + 10)) < 2
               /\ Abs(position.y - ((position.y \div TILE_SIZE) * TILE_SIZE + 10)) < 2
               /\ \A d \in DirectionSet \ {direction'} :
                      ~is_walkable(game_map,
                                   position.x \div TILE_SIZE + value(d)[1],
                                   position.y \div TILE_SIZE + value(d)[2])]_vars

\* A ghost in the middle of the tunnel row, facing RIGHT with its target
\* behind it, has chosen: it keeps RIGHT, away from the target.
C15_Witness ==
    /\ lastOp = "choose_direction"
    /\ game_map = Maze
    /\ state = "SCATTER"
    /\ position = Position(30, 10)
    /\ target = Position(10, 10)
    /\ direction = "RIGHT"

\* C16: a move whose destination tile is inside the horizontal range of the
\* map goes exactly to position + direction * speed when that tile is
\* walkable, and otherwise exactly to the center of the tile the ghost was
\* in, where it counts as centered for the next direction choice.
C16_MoveOrSnap ==
    [][lastOp' = "move" =>
            LET new_x == position.x + value(direction)[1] * speed
                new_y == position.y + value(direction)[2] * speed
                gx == new_x \div TILE_SIZE
                gy == new_y \div TILE_SIZE
            IN  (gx >= 0 /\ gx < game_map.width) =>
                    IF << gx, gy >> \in game_map.walkable
                    THEN position' = Position(new_x, new_y)
                    ELSE /\ position' = Position((position.x \div TILE_SIZE) * TILE_SIZE + 10,
                                                 (position.y \div TILE_SIZE) * TILE_SIZE + 10)
                         /\ is_centered_on_tile(position')]_vars

\* An eaten ghost running upwards in the walled tile has been stopped by
\* the wall and put on the center of its tile.
C16_Witness ==
    /\ lastOp = "move"
    /\ game_map = Box
    /\ state = "EATEN"
    /\ direction = "UP"
    /\ position = Position(30, 30)

\* C17: a move whose destination tile has grid-x -1 puts x at
\* mapWidth * tileSize - tileSize, one whose destination has grid-x mapWidth
\* puts x at 0; y is unchanged and nothing else happens to the position,
\* whether or not the tile it lands in is walkable.
C17_TunnelWrap ==
    [][lastOp' = "move" =>
            LET new_x == position.x + value(direction)[1] * speed
                gx == new_x \div TILE_SIZE
            IN  /\ gx = -1 =>
                    position' = Position(game_map.width * TILE_SIZE - TILE_SIZE, position.y)
                /\ gx = game_map.width => position' = Position(0, position.y)]_vars

\* A ghost has left the dead end's bottom tile to the left and stands beyond
\* the right end of that row, in a tile that is not walkable.
C17_Witness ==
    /\ lastOp = "move"
    /\ game_map = Maze
    /\ direction = "LEFT"
    /\ position = Position(40, 50)

\* C18: an ACTIVE ghost is at the house-exit point, or on the line through
\* tile centers along its direction: the coordinate perpendicular to its
\* direction is a tile-center coordinate.
C18_PositionInvariant ==
    house_state = "ACTIVE" =>
        \/ position = Position(house_exit.x, house_exit.y)
        \/ (direction \in {"LEFT", "RIGHT"} /\ position.y % TILE_SIZE = TILE_SIZE \div 2)
        \/ (direction \in {"UP", "DOWN"} /\ position.x % TILE_SIZE = TILE_SIZE \div 2)

\* C19: the ambusher's target is the player's position moved 4 tiles along
\* the facing vector, for every facing with components in -1 .. 1; it is the
\* player's position for NONE, and (180, 100) for (100, 100) facing RIGHT.
C19_PinkyTarget ==
    /\ [](calculate_target("Pinky", position, blinky, game_map, 100, 100, << 1, 0 >>)
            = << 180, 100 >>)
    /\ [][(lastOp' = "calculate_target" /\ name = "Pinky") =>
            /\ target'.x = pacman.x + pacman.direction[1] * 4 * TILE_SIZE
            /\ target'.y = pacman.y + pacman.direction[2] * 4 * TILE_SIZE
            /\ (pacman.direction = << 0, 0 >> =>
                    target' = Position(pacman.x, pacman.y))]_vars

\* Pinky has targeted a player at (100, 100) facing RIGHT.
C19_Witness ==
    /\ lastOp = "calculate_target"
    /\ name = "Pinky"
    /\ pacman = Player(100, 100, << 1, 0 >>)
    /\ target = Position(180, 100)

\* C20: with a partner, the pincer's target is partner + 2 * (intermediate
\* - partner), intermediate being the player's position moved 2 tiles along
\* the facing; partner (60, 60), player (100, 100) facing RIGHT: (220, 140).
C20_InkyTarget ==
    /\ [](calculate_target("Inky", position, Position(60, 60), game_map,
                           100, 100, << 1, 0 >>) = << 220, 140 >>)
    /\ [][(lastOp' = "calculate_target" /\ name = "Inky" /\ blinky # NoBlinky) =>
            LET intermediate_x == pacman.x + 2 * TILE_SIZE * pacman.direction[1]
                intermediate_y == pacman.y + 2 * TILE_SIZE * pacman.direction[2]
            IN  /\ target'.x = blinky.x + 2 * (intermediate_x - blinky.x)
                /\ target'.y = blinky.y + 2 * (intermediate_y - blinky.y)]_vars

\* Inky, its partner at (60, 60), has targeted a player at (100, 100) facing
\* RIGHT.
C20_Witness ==
    /\ lastOp = "calculate_target"
    /\ name = "Inky"
    /\ blinky = Position(60, 60)
    /\ pacman = Player(100, 100, << 1, 0 >>)
    /\ target = Position(220, 140)

\* C21: Inky without partner targets exactly the player's position, which is
\* what Blinky computes for the same input, for every player position and
\* facing; the call yields a target like any other.
C21_InkyWithoutPartner ==
    [][(lastOp' = "calculate_target" /\ name = "Inky" /\ blinky = NoBlinky) =>
            LET b == calculate_target("Blinky", position, NoBlinky, game_map,
                                      pacman.x, pacman.y, pacman.direction)
            IN  /\ target' = Position(pacman.x, pacman.y)
                /\ target' = Position(b[1], b[2])]_vars

\* Inky, with no partner set, has targeted a player who faces down-left.
C21_Witness ==
    /\ lastOp = "calculate_target"
    /\ name = "Inky"
    /\ blinky = NoBlinky
    /\ pacman.direction = << -1, 1 >>
    /\ target = Position(pacman.x, pacman.y)

\* C22: the timid ghost targets the player's position when its own distance
\* to the player is strictly greater than 8 tiles (160 px), and the scatter
\* corner (tileSize, (mapHeight - 2) * tileSize) otherwise, the distance 160
\* included; from (0, 0), a player at (500, 0) is chased and a player at
\* (100, 0) is not.
C22_ClydeTarget ==
    /\ [](LET far == calculate_target("Clyde", Position(0, 0), NoBlinky, game_map,
                                      500, 0, << 1, 0 >>)
              near == calculate_target("Clyde", Position(0, 0), NoBlinky, game_map,
                                       100, 0, << 1, 0 >>)
          IN  /\ far = << 500, 0 >>
              /\ near = << 20, (game_map.height - 2) * 20 >>)
    /\ [][(lastOp' = "calculate_target" /\ name = "Clyde") =>
            LET dx == position.x - pacman.x
                dy == position.y - pacman.y
            IN  IF dx * dx + dy * dy > (8 * TILE_SIZE) * (8 * TILE_SIZE)
                THEN target' = Position(pacman.x, pacman.y)
                ELSE target' = Position(1 * TILE_SIZE,
                                        (game_map.height - 2) * TILE_SIZE)]_vars

\* Clyde at (0, 0) has looked at a player exactly 160 px away and has
\* turned to its scatter corner.
C22_Witness ==
    /\ lastOp = "calculate_target"
    /\ name = "Clyde"
    /\ position = Position(0, 0)
    /\ pacman.x = 160
    /\ pacman.y = 0
    /\ target = Position(20, (game_map.height - 2) * 20)

\* C23: in every tick the loop updates Blinky before Inky, and Inky's target
\* is computed from the position Blinky has after its update of that same
\* tick, never from the one it had when the tick began.
C23_SameTickPartner ==
    /\ [][lastOp' = "update" => lastOp = "update_blinky"]_vars
    /\ [][(lastOp' = "update" /\ house_state = "ACTIVE") =>
            /\ target'.x = blinky.x
                             + 2 * ((pacman.x + 2 * TILE_SIZE * pacman.direction[1]) - blinky.x)
            /\ target'.y = blinky.y
                             + 2 * ((pacman.y + 2 * TILE_SIZE * pacman.direction[2]) - blinky.y)
            /\ (blinky.x # blinky.before.x =>
                    target'.x # blinky.before.x
                                  + 2 * ((pacman.x + 2 * TILE_SIZE * pacman.direction[1])
                                          - blinky.before.x))]_vars

\* Inky has targeted in a tick in which Blinky had moved before it.
C23_Witness ==
    /\ lastOp = "update"
    /\ house_state = "ACTIVE"
    /\ blinky.house_state = "ACTIVE"
    /\ blinky.x # blinky.before.x
    /\ target = Position(2 * (pacman.x + 2 * TILE_SIZE * pacman.direction[1]) - blinky.x,
                         2 * (pacman.y + 2 * TILE_SIZE * pacman.direction[2]) - blinky.y)

\* C24: an update of Inky, which reads Blinky's position, and a command on
\* Inky leave every field of Blinky unchanged; an update of Blinky and a
\* command on Blinky leave every field of Inky unchanged.
C24_NoCrossEffects ==
    [][/\ lastOp' \in {"update", "release_from_house"} =>
            /\ UNCHANGED blinky
            /\ blinky'.x = blinky.x /\ blinky'.y = blinky.y
            /\ blinky'.direction = blinky.direction
            /\ blinky'.speed = blinky.speed
            /\ blinky'.state = blinky.state
            /\ blinky'.house_state = blinky.house_state
            /\ blinky'.frightened_timer = blinky.frightened_timer
       /\ lastOp' \in {"update_blinky", "release_blinky", "eat_blinky"} =>
            UNCHANGED << position, spawn_position, direction, speed, target, state,
                         house_state, frightened_timer >>]_vars

\* Inky, ACTIVE, has been updated while its partner was running home eaten.
C24_Witness ==
    /\ lastOp = "update"
    /\ house_state = "ACTIVE"
    /\ target # NoPosition
    /\ blinky.state = "EATEN"
    /\ blinky.house_state = "ACTIVE"

\* C25 (as stated): every update() of an EXITING ghost steps x by the speed
\* towards exit.x while |x - exit.x| > 2, else steps y up by the speed while
\* |y - exit.y| > 2, else leaves the position, sets ACTIVE and faces LEFT;
\* ACTIVE is entered only from within the tolerance on both axes.
C25_ExitHouseOrdering ==
    /\ [][(lastOp' = "update" /\ house_state = "EXITING") =>
            IF Abs(position.x - house_exit.x) > 2
            THEN /\ position'.y = position.y
                 /\ position'.x = IF position.x < house_exit.x
                                  THEN position.x + speed'
                                  ELSE position.x - speed'
                 /\ house_state' = "EXITING"
            ELSE IF Abs(position.y - house_exit.y) > 2
                 THEN /\ position'.x = position.x
                      /\ position'.y = position.y - speed'
                      /\ house_state' = "EXITING"
                 ELSE /\ position' = position
                      /\ house_state' = "ACTIVE"
                      /\ direction' = "LEFT"]_vars
    /\ [][(house_state # "ACTIVE" /\ house_state' = "ACTIVE") =>
            /\ Abs(position.x - house_exit.x) <= 2
            /\ Abs(position.y - house_exit.y) <= 2]_vars

\* C25 (amended): the same, for every update() of an EXITING ghost that the
\* eaten-arrival check does not reset, the step being the speed the
\* countdown step of that update leaves.
C25_ExitHouseOrderingUnlessReset ==
    /\ [][(/\ lastOp' = "update"
           /\ house_state = "EXITING"
           /\ ~(state = "EATEN"
                  /\ distance_to_sq(position, house_exit) < TILE_SIZE * TILE_SIZE)) =>
            IF Abs(position.x - house_exit.x) > 2
            THEN /\ position'.y = position.y
                 /\ position'.x = IF position.x < house_exit.x
                                  THEN position.x + speed'
                                  ELSE position.x - speed'
                 /\ house_state' = "EXITING"
            ELSE IF Abs(position.y - house_exit.y) > 2
                 THEN /\ position'.x = position.x
                      /\ position'.y = position.y - speed'
                      /\ house_state' = "EXITING"
                 ELSE /\ position' = position
                      /\ house_state' = "ACTIVE"
                      /\ direction' = "LEFT"]_vars
    /\ [][(house_state # "ACTIVE" /\ house_state' = "ACTIVE") =>
            /\ lastOp' = "update"
            /\ house_state = "EXITING"
            /\ Abs(position.x - house_exit.x) <= 2
            /\ Abs(position.y - house_exit.y) <= 2]_vars

\* A ghost that came from inside the house has just become ACTIVE, two
\* pixels right of and two below the exit point, before any navigation.
C25_Witness ==
    /\ lastOp = "update"
    /\ house_state = "ACTIVE"
    /\ direction = "LEFT"
    /\ target = NoPosition
    /\ position = Position(house_exit.x + 2, house_exit.y + 2)

\* C26: an update() that finds the ghost EXITING at its house-state check
\* runs the exit-house step only, in every lifecycle state: the target is
\* unchanged, the direction changes only to LEFT on arrival, and the
\* position is unchanged or one step towards the exit, through tiles that
\* are not walkable too.
C26_ExitingOnlyExits ==
    [][(/\ lastOp' = "update"
        /\ house_state = "EXITING"
        /\ ~(state = "EATEN"
               /\ distance_to_sq(position, house_exit) < TILE_SIZE * TILE_SIZE)) =>
            /\ target' = target
            /\ direction' \in {direction, "LEFT"}
            /\ (direction' # direction => house_state' = "ACTIVE")
            /\ position' \in {position,
                              Position(position.x - speed', position.y),
                              Position(position.x + speed', position.y),
                              Position(position.x, position.y - speed')}
            /\ (house_state' = "EXITING" => position' # position)]_vars

\* A frightened ghost is on its way out through the house tiles, which are
\* not walkable, and has not had a target yet.
C26_Witness ==
    /\ lastOp = "update"
    /\ house_state = "EXITING"
    /\ state = "FRIGHTENED"
    /\ position.y < spawn_position.y
    /\ ~is_walkable(game_map, position.x \div TILE_SIZE, position.y \div TILE_SIZE)
    /\ target = NoPosition

\* C27: _choose_direction() on a centered, non-frightened ghost with a target
\* and at least one walkable non-reverse neighbour leaves a direction whose
\* neighbour tile is walkable, that is not the reverse of the facing, and
\* whose neighbour-center-to-target distance is minimal among such
\* directions, the first of UP, DOWN, LEFT, RIGHT among equals.
C27_GreedyChoice ==
    [][(/\ lastOp' = "choose_direction"
        /\ state # "FRIGHTENED"
        /\ target # NoPosition
        /\ is_centered_on_tile(position)) =>
            LET g == to_grid(position)
                tile(i) == << g[1] + value(Directions[i])[1],
                              g[2] + value(Directions[i])[2] >>
                candidates == {i \in 1 .. Len(Directions) :
                                  /\ Directions[i] # reverse_direction(direction)
                                  /\ tile(i) \in game_map.walkable}
                dx(i) == tile(i)[1] * TILE_SIZE + TILE_SIZE \div 2 - target.x
                dy(i) == tile(i)[2] * TILE_SIZE + TILE_SIZE \div 2 - target.y
                dist(i) == dx(i) * dx(i) + dy(i) * dy(i)
            IN  candidates # {} =>
                    \E i \in candidates :
                        /\ direction' = Directions[i]
                        /\ \A j \in candidates :
                              dist(i) < dist(j) \/ (dist(i) = dist(j) /\ i <= j)]_vars

\* At the top-left tile of the maze, with the tiles below and to the right
\* equally far from the target, the ghost has been turned DOWN.
C27_Witness ==
    /\ lastOp = "choose_direction"
    /\ game_map = Maze
    /\ state = "SCATTER"
    /\ position = Position(10, 10)
    /\ target = Position(30, 30)
    /\ direction = "DOWN"

\* C28: _choose_direction() on a centered FRIGHTENED ghost leaves a member
\* of the set of directions that are neither the reverse of the facing nor
\* lead to a non-walkable tile when that set is not empty, every member being
\* a possible outcome, and leaves the direction unchanged when it is empty.
C28_FrightenedChoice ==
    /\ [][(/\ lastOp' = "choose_direction"
           /\ state = "FRIGHTENED"
           /\ is_centered_on_tile(position)) =>
            LET g == to_grid(position)
                remainder == {d \in DirectionSet :
                                /\ d # reverse_direction(direction)
                                /\ << g[1] + value(d)[1], g[2] + value(d)[2] >>
                                      \in game_map.walkable}
            IN  IF remainder # {}
                THEN direction' \in remainder
                ELSE direction' = direction]_vars
    /\ []((state = "FRIGHTENED" /\ is_centered_on_tile(position)) =>
            LET g == to_grid(position)
            IN  \A d \in DirectionSet :
                    (/\ d # reverse_direction(direction)
                     /\ << g[1] + value(d)[1], g[2] + value(d)[2] >> \in game_map.walkable)
                        => ENABLED (choose_direction_call /\ direction' = d))

\* A frightened ghost in the middle tile of the maze's left column, which
\* has a walkable tile above and one below, has been turned DOWN.
C28_Witness ==
    /\ lastOp = "choose_direction"
    /\ game_map = Maze
    /\ state = "FRIGHTENED"
    /\ position = Position(10, 30)
    /\ direction = "DOWN"

C30_LeavesDeadEnd ==
    (<>[](lastOp = "update")) =>
        \A g \in Maze.walkable :
            [](( /\ house_state = "ACTIVE"
                 /\ to_grid(position) = g
                 /\ \A d \in DirectionSet :
                       << g[1] + value(d)[1], g[2] + value(d)[2] >> \in game_map.walkable
                           => d = reverse_direction(direction))
                  => <>(to_grid(position) # g))

\* C31: where the ghost is 2 pixels or more from the center of its tile in
\* x or in y, _choose_direction() leaves the direction unchanged in every
\* lifecycle state, and an update() that gets to the direction choice keeps
\* the direction and steps along it wherever the step leads to a walkable
\* tile.
C31_OffCenterKeepsDirection ==
    [][(LET g == to_grid(position)
        IN  \/ Abs(position.x - (g[1] * TILE_SIZE + TILE_SIZE \div 2)) >= 2
            \/ Abs(position.y - (g[2] * TILE_SIZE + TILE_SIZE \div 2)) >= 2) =>
            /\ lastOp' = "choose_direction" => direction' = direction
            /\ (/\ lastOp' = "update"
                /\ ~(state = "EATEN"
                       /\ distance_to_sq(position, house_exit) < TILE_SIZE * TILE_SIZE)) =>
                  LET stepped == Position(position.x + value(direction)[1] * speed',
                                          position.y + value(direction)[2] * speed')
                  IN  /\ direction' = direction
                      /\ to_grid(stepped) \in game_map.walkable => position' = stepped]_vars

\* Two pixels right of the center of the maze's top-left tile, a ghost with
\* a target still faces UP, into the wall, after _choose_direction().
C31_Witness ==
    /\ lastOp = "choose_direction"
    /\ game_map = Maze
    /\ state = "SCATTER"
    /\ target = Position(50, 50)
    /\ position = Position(12, 10)
    /\ direction = "UP"

\* C32: distance_to is the distance between the centers of the tiles of its
\* two arguments: positions in the same tiles as the timid ghost and the
\* player are as far apart as the ghost and the player that its
\* calculate_target measures.
C32_DistanceBetweenTileCenters ==
    [][(lastOp' = "calculate_target" /\ name = "Clyde") =>
            LET same_tile(p) == {Position(to_grid(p)[1] * TILE_SIZE + ox,
                                          to_grid(p)[2] * TILE_SIZE + oy) :
                                    ox \in {0, TILE_SIZE \div 2, TILE_SIZE - 1},
                                    oy \in {0, TILE_SIZE \div 2, TILE_SIZE - 1}}
            IN  \A a \in same_tile(position), b \in same_tile(pacman) :
                    distance_to_sq(a, b) = distance_to_sq(position, pacman)]_vars

\* C33: between operations the speed is a function of the lifecycle state:
\* 1 when FRIGHTENED, 4 when EATEN, the base speed in SCATTER or CHASE.
C33_SpeedOfState ==
    /\ state = "FRIGHTENED" => speed = 1
    /\ state = "EATEN" => speed = 4
    /\ state \in {"SCATTER", "CHASE"} => speed = GHOST_SPEED

\* A ghost eaten while frightened has been respawned: it went through the
\* speeds 1 and 4 and is back at the base speed, its countdown still
\* standing.
C33_Witness ==
    /\ lastOp = "update"
    /\ state = "SCATTER"
    /\ speed = GHOST_SPEED
    /\ house_state = "EXITING"
    /\ position = spawn_position
    /\ direction = "UP"
    /\ frightened_timer > 0

\* C34: the frightened countdown is within 0..600 in every reachable state,
\* and at least 1 whenever the ghost is FRIGHTENED.
C34_CountdownRange ==
    /\ frightened_timer \in 0 .. 600
    /\ state = "FRIGHTENED" => frightened_timer >= 1

\* The last frame in which a frightened ghost is still FRIGHTENED.
C34_Witness ==
    /\ lastOp = "update"
    /\ state = "FRIGHTENED"
    /\ frightened_timer = 1

\* C35: the countdown runs on every update() in every house state: a
\* FRIGHTENED ghost has had fewer than 600 updates since start_frightened(),
\* its countdown being 600 less their number, and every update() of a
\* FRIGHTENED ghost, IN_HOUSE, EXITING or ACTIVE, counts one down.
C35_FrightenedEndsWithin600 ==
    /\ [](state = "FRIGHTENED" =>
            /\ since_frightened \in 0 .. 599
            /\ frightened_timer = 600 - since_frightened)
    /\ [][(/\ lastOp' = "update"
           /\ state = "FRIGHTENED"
           /\ house_state \in {"IN_HOUSE", "EXITING", "ACTIVE"}) =>
            /\ since_frightened' = since_frightened + 1
            /\ frightened_timer' = frightened_timer - 1
            /\ (since_frightened' = 600 => state' # "FRIGHTENED")]_vars

\* A ghost frightened in the house and never released is back in SCATTER
\* with the 600th update.
C35_Witness ==
    /\ lastOp = "update"
    /\ house_state = "IN_HOUSE"
    /\ position = spawn_position
    /\ since_frightened = 600
    /\ state = "SCATTER"

\* C36: once only update() calls follow, a ghost released from its spawn
\* position does not stay EXITING: the house state becomes ACTIVE, whether
\* its speed on the way is 1, the base speed or 4.
C36_ExitTerminates ==
    (<>[](lastOp = "update")) =>
        [](house_state = "EXITING" => <>(house_state = "ACTIVE"))

\* A frightened ghost that started below and beside the exit point has
\* just become ACTIVE at speed 1.
C36_Witness ==
    /\ lastOp = "update"
    /\ house_state = "ACTIVE"
    /\ state = "FRIGHTENED"
    /\ speed = FRIGHTENED_SPEED
    /\ spawn_position = HouseStart
    /\ target = NoPosition

\* C37: an ACTIVE ghost that keeps travelling from tile to tile under
\* update() calls is, again and again, within the centering tolerance of
\* the center of the tile it is in.
C37_NoIntersectionSkipped ==
    (/\ <>[](lastOp = "update" /\ house_state = "ACTIVE")
     /\ []<><<to_grid(position') # to_grid(position)>>_vars) =>
        []<>(/\ Abs(position.x - (to_grid(position)[1] * TILE_SIZE + TILE_SIZE \div 2)) < 2
             /\ Abs(position.y - (to_grid(position)[2] * TILE_SIZE + TILE_SIZE \div 2)) < 2)

\* C38: an update() that finds an ACTIVE ghost in a walkable tile and
\* leaves it ACTIVE leaves it in a walkable tile, after a tunnel wrap too.
C38_NeverInWall ==
    [][(/\ lastOp' = "update"
        /\ house_state = "ACTIVE"
        /\ house_state' = "ACTIVE"
        /\ to_grid(position) \in game_map.walkable) =>
            to_grid(position') \in game_map.walkable]_vars

\* C39 (as stated): the lifecycle state is never CHASE, and every step that
\* leaves FRIGHTENED or EATEN leaves it for SCATTER.
C39_ChaseNeverReached ==
    /\ [](state # "CHASE")
    /\ [][(state \in {"FRIGHTENED", "EATEN"} /\ state' # state) =>
            state' = "SCATTER"]_vars

\* C39 (amended): the lifecycle state is never CHASE; every step that
\* leaves EATEN leaves it for SCATTER, and every step that leaves FRIGHTENED
\* leaves it for SCATTER or, by get_eaten(), for EATEN.
C39_ChaseNeverReachedEatenAside ==
    /\ [](state # "CHASE")
    /\ [][(state \in {"FRIGHTENED", "EATEN"} /\ state' # state) =>
            \/ state' = "SCATTER"
            \/ (state = "FRIGHTENED" /\ lastOp' = "get_eaten" /\ state' = "EATEN")]_vars

\* return_to_house() has put a ghost that was frightened, its countdown
\* still standing, back in SCATTER.
C39_Witness ==
    /\ lastOp = "return_to_house"
    /\ state = "SCATTER"
    /\ frightened_timer \in 1 .. FRIGHTENED_DURATION - 1

====
